---- MODULE Spec2Model ----
(***************************************************************************)
(* Model of the create_midi tool of midi-mcp-server (src/src/index.ts).    *)
(*                                                                         *)
(* JavaScript objects are records whose DOMAIN holds exactly the fields    *)
(* that are present: `x.f === undefined` is "f" \notin DOMAIN x, `'f' in   *)
(* x` is "f" \in DOMAIN x, `delete x.f` removes f from the domain.         *)
(* Offsets (startTime, time), beats and tempi are drawn from the integers. *)
(* A numeric duration is the fraction <<numerator, denominator>> in lowest *)
(* terms; a duration is tagged with its typeof.  The result of a numeric   *)
(* computation that may leave the finite numbers is tagged:               *)
(* fin tells a finite number, whose value is v, from NaN and the two       *)
(* infinities, which `is` names.                                           *)
(***************************************************************************)
EXTENDS Integers, Sequences, FiniteSets, TLC

\* ------------------------------------------------------------------ bounds
NumRequests == 2     \* requests the client sends to the server
MaxTracks == 2       \* tracks of the multi-track compositions
MaxBeat == 3         \* beats range over -1 .. MaxBeat
MaxOffset == 3       \* startTime ranges over -MaxOffset .. MaxOffset

\* ------------------------------------------------------- program constants
batchSize == 50
PPQ == 128
DefaultTempo == 120
DefaultVelocity == 100
Channels == 16

Requests == 1 .. NumRequests

\* ------------------------------------------------------------- JS helpers
Has(obj, f) == f \in DOMAIN obj

\* the object obj with field f set to v (added when absent)
Put(obj, f, v) == [g \in DOMAIN obj \cup {f} |-> IF g = f THEN v ELSE obj[g]]

\* delete obj.f
Delete(obj, f) == [g \in DOMAIN obj \ {f} |-> obj[g]]

\* a field that is present with value x when s = {x} and absent when s = {}
Opt(f, s) == IF s = {} THEN <<>> ELSE f :> (CHOOSE x \in s : TRUE)

OptSet(S) == {{}} \cup {{x} : x \in S}

Fin(n) == [fin |-> TRUE, v |-> n, is |-> "finite"]
NaN == [fin |-> FALSE, v |-> 0, is |-> "NaN"]
Infinity == [fin |-> FALSE, v |-> 0, is |-> "Infinity"]
NegInfinity == [fin |-> FALSE, v |-> 0, is |-> "-Infinity"]

\* Math.round(p / q) for integers p, q with q # 0: the nearest integer, a
\* tie going up (Math.round(0.5) = 1, Math.round(-0.5) = -0, printed "0").
Round(p, q) ==
  LET pp == IF q < 0 THEN 0 - p ELSE p
      qq == IF q < 0 THEN 0 - q ELSE q
  IN  (2 * pp + qq) \div (2 * qq)

\* Math.round(p / q) as JavaScript computes it, q = 0 included
RoundDiv(p, q) ==
  IF q # 0 THEN Fin(Round(p, q))
  ELSE IF p = 0 THEN NaN
  ELSE IF p > 0 THEN Infinity
  ELSE NegInfinity

\* ------------------------------------------------- duration normalisation
\* faulty variant of DurationToken: the cases of 0.5 and 2 exchanged
DurationTokenSwapped(d) ==
  CASE d = <<1, 16>> -> "64"
    [] d = <<1, 8>> -> "32"
    [] d = <<1, 4>> -> "16"
    [] d = <<1, 2>> -> "2"
    [] d = <<1, 1>> -> "4"
    [] d = <<2, 1>> -> "8"
    [] OTHER -> "4"

\* switch (note.duration) of the handler
DurationToken(d) ==
  CASE d = <<1, 16>> -> "64"
    [] d = <<1, 8>> -> "32"
    [] d = <<1, 4>> -> "16"
    [] d = <<1, 2>> -> "8"
    [] d = <<1, 1>> -> "4"
    [] d = <<2, 1>> -> "2"
    [] OTHER -> "4"

\* if (typeof note.duration === 'number') note.duration = ...
ConvertDuration(note) ==
  IF Has(note, "duration") /\ note.duration.type = "number"
    THEN Put(note, "duration",
             [type |-> "string", val |-> DurationToken(note.duration.val)])
    ELSE note

\* faulty variant of ConvertTime: time overwrites a startTime that is present
ConvertTimeAlways(note) ==
  IF Has(note, "time")
    THEN Delete(Put(note, "startTime", note.time), "time")
    ELSE note

\* if ('time' in note && note.startTime === undefined)
\*   { note.startTime = note.time; delete note.time; }
ConvertTime(note) ==
  IF Has(note, "time") /\ ~Has(note, "startTime")
    THEN Delete(Put(note, "startTime", note.time), "time")
    ELSE note

\* first pass: composition.tracks.forEach(track => track.notes.forEach(...))
ConvertDurations(comp) ==
  Put(comp, "tracks",
      [t \in 1 .. Len(comp.tracks) |->
         Put(comp.tracks[t], "notes",
             [i \in 1 .. Len(comp.tracks[t].notes) |->
                ConvertDuration(comp.tracks[t].notes[i])])])

\* second pass: composition.tracks.forEach(track => track.notes.forEach(...))
ConvertTimes(comp) ==
  Put(comp, "tracks",
      [t \in 1 .. Len(comp.tracks) |->
         Put(comp.tracks[t], "notes",
             [i \in 1 .. Len(comp.tracks[t].notes) |->
                ConvertTime(comp.tracks[t].notes[i])])])

\* composition.tracks.forEach(track => track.notes.forEach(...)) throws a
\* TypeError when tracks, or some track's notes, is undefined
ForEachThrows(comp) ==
  \/ ~Has(comp, "tracks")
  \/ \E t \in 1 .. Len(comp.tracks) : ~Has(comp.tracks[t], "notes")

\* the two forEach passes of the handler
NormalizeComposition(comp) ==
  ConvertTimes(ConvertDurations(comp))

\* ------------------------------------------------------- timing resolver
convertBeatToWait(beat, bpm) ==
  IF bpm = {} THEN NaN
  ELSE RoundDiv((beat - 1) * PPQ, CHOOSE b \in bpm : TRUE)

\* composition.bpm as read by the beat branch: {} when undefined
BpmOf(comp) == IF Has(comp, "bpm") THEN {comp.bpm} ELSE {}

\* const startTime = note.startTime || 0; wait = `T${Math.round(startTime * 0.5)}`
StartTimeWait(note) ==
  LET startTime == IF Has(note, "startTime") /\ note.startTime # 0
                     THEN note.startTime ELSE 0
  IN  Fin(Round(startTime, 2))

ResolveWait(note, comp) ==
  IF Has(note, "beat") THEN convertBeatToWait(note.beat, BpmOf(comp))
  ELSE StartTimeWait(note)

\* ------------------------------------------------------------- chunking
RECURSIVE chunkFrom(_, _, _)
chunkFrom(array, size, i) ==
  IF i >= Len(array) THEN <<>>
  ELSE <<SubSeq(array, i + 1, IF i + size < Len(array) THEN i + size ELSE Len(array))>>
         \o chunkFrom(array, size, i + size)

chunkArray(array, size) == chunkFrom(array, size, 0)

\* ------------------------------------------------------------- assembler
noteToMidiNumber(note) == note

\* new MidiWriter.NoteEvent({pitch, duration, velocity, channel, wait})
NoteEvent(note, trackIndex, comp) ==
  [pitch |-> noteToMidiNumber(note.pitch),
   duration |-> note.duration,
   velocity |-> IF Has(note, "velocity") THEN note.velocity ELSE DefaultVelocity,
   channel |-> IF Has(note, "channel") THEN note.channel % Channels
               ELSE trackIndex % Channels,
   wait |-> ResolveWait(note, comp)]

RECURSIVE Flatten(_)
Flatten(seqs) == IF seqs = <<>> THEN <<>> ELSE Head(seqs) \o Flatten(Tail(seqs))

RECURSIVE Reverse(_)
Reverse(seq) == IF seq = <<>> THEN <<>> ELSE Append(Reverse(Tail(seq)), Head(seq))

\* faulty variant of NoteEvents: a track above the batch size is emitted
\* chunk by chunk, the chunks last to first
NoteEventsByChunk(notes, trackIndex, comp) ==
  LET chunked == IF Len(notes) > batchSize
                   THEN Flatten(Reverse(chunkArray(notes, batchSize)))
                   ELSE notes
  IN  [i \in 1 .. Len(chunked) |-> NoteEvent(chunked[i], trackIndex, comp)]

\* trackData.notes.forEach(note => track.addEvent(new NoteEvent(...)))
NoteEvents(notes, trackIndex, comp) ==
  [i \in 1 .. Len(notes) |-> NoteEvent(notes[i], trackIndex, comp)]

\* const tempo = composition.bpm || composition.tempo || 120
TempoOf(comp) ==
  IF Has(comp, "bpm") /\ comp.bpm # 0 THEN comp.bpm
  ELSE IF Has(comp, "tempo") /\ comp.tempo # 0 THEN comp.tempo
  ELSE DefaultTempo

TimeSignatureOf(comp) ==
  IF Has(comp, "timeSignature") THEN comp.timeSignature
  ELSE [numerator |-> 4, denominator |-> 4]

\* one MidiWriter.Track as createMidiFile fills it; trackIndex counts from 0
BuildTrack(trackData, trackIndex, comp) ==
  [name |-> IF Has(trackData, "name") THEN {trackData.name} ELSE {},
   tempo |-> TempoOf(comp),
   timeSignature |-> TimeSignatureOf(comp),
   program |-> IF Has(trackData, "instrument")
                 THEN {[instrument |-> trackData.instrument,
                        channel |-> trackIndex % Channels]}
                 ELSE {},
   events |-> NoteEvents(trackData.notes, trackIndex, comp)]

\* composition.tracks.forEach((trackData, trackIndex) => ... tracks.push(track))
BuildTracks(comp) ==
  [t \in 1 .. Len(comp.tracks) |-> BuildTrack(comp.tracks[t], t - 1, comp)]

\* ------------------------------------------------------------ file emitter
MidiDir == "midi-files"

\* path.isAbsolute(outputPath) ? outputPath : path.join(midiDir, path.basename(outputPath))
ResolveOutputPath(outputPath) ==
  IF outputPath.absolute THEN outputPath
  ELSE [absolute |-> TRUE, dir |-> MidiDir, base |-> outputPath.base]

\* faulty variant of TrackProgress: the fraction is not scaled to a percentage
TrackProgressUnscaled(processedTracks, totalTracks) ==
  processedTracks \div totalTracks

\* Math.floor((processedTracks / totalTracks) * 100); the floating-point
\* product equals the exact one for the track counts of this model, and
\* (n / n) * 100 is exactly 100 for every n
TrackProgress(processedTracks, totalTracks) ==
  (processedTracks * 100) \div totalTracks

\* ------------------------------------------------------------------ inputs
Str(tok) == [type |-> "string", val |-> tok]
Num(frac) == [type |-> "number", val |-> frac]

Tokens == {"1", "2", "4", "8", "16", "32", "64"}

Fractions ==
  {<<1, 16>>, <<1, 8>>, <<1, 4>>, <<1, 2>>, <<1, 1>>, <<2, 1>>,
   <<0, 1>>, <<3, 1>>, <<4, 1>>, <<3, 4>>, <<1, 32>>, <<-1, 1>>}

Durations == {Str(tok) : tok \in Tokens} \cup {Num(frac) : frac \in Fractions}

\* notes with every combination of the three timing fields
TimingNotes ==
  {[pitch |-> 60, duration |-> Str("4")]
     @@ Opt("beat", b) @@ Opt("startTime", s) @@ Opt("time", t) :
     b \in OptSet(-1 .. MaxBeat),
     s \in OptSet((0 - MaxOffset) .. MaxOffset),
     t \in OptSet({0, MaxOffset + 2})}

DurationNotes ==
  {[pitch |-> 62, duration |-> d, startTime |-> 0] : d \in Durations}

DefaultingNotes ==
  {[pitch |-> 64, duration |-> Str("8")] @@ Opt("velocity", v) @@ Opt("channel", c) :
     v \in OptSet({0, 64}), c \in OptSet({3, 17})}

Notes == TimingNotes \cup DurationNotes \cup DefaultingNotes

OneTrack(notes) == [bpm |-> 120, tracks |-> <<[notes |-> notes]>>]

NoteCompositions == {OneTrack(<<n>>) : n \in Notes}

\* every combination of bpm and the legacy tempo field
TempoCompositions ==
  {Opt("bpm", b) @@ Opt("tempo", t)
     @@ [tracks |-> <<[name |-> "Piano", instrument |-> 0,
                       notes |-> <<[pitch |-> 60, duration |-> Str("4"), beat |-> 2],
                                   [pitch |-> 61, duration |-> Num(<<1, 2>>), time |-> 4]>>]>>] :
     b \in OptSet({0, 120, 256}), t \in OptSet({90})}

\* a track of len notes, each told apart by its pitch and its offset
LongTrack(len, first) ==
  [notes |-> [i \in 1 .. len |->
                [pitch |-> first + i, duration |-> Str("4"), startTime |-> i]]]

TrackLengths == {0, 1, batchSize - 1, batchSize, batchSize + 1, 2 * batchSize + 1}

RECURSIVE LengthSeqs(_)
LengthSeqs(n) ==
  IF n = 0 THEN {<<>>}
  ELSE LET shorter == LengthSeqs(n - 1)
       IN  shorter \cup {Append(ls, l) : ls \in {x \in shorter : Len(x) = n - 1},
                                         l \in TrackLengths}

\* compositions of 0 .. MaxTracks tracks of lengths around the batch size
TrackCompositions ==
  {[bpm |-> 120,
    tracks |-> [t \in 1 .. Len(ls) |-> LongTrack(ls[t], 10 * t)]] :
     ls \in LengthSeqs(MaxTracks)}

ShapeCompositions ==
  {[bpm |-> 120],
   [tempo |-> 90],
   [bpm |-> 120, tracks |-> <<[name |-> "Empty"]>>],
   [tracks |-> <<[notes |-> <<[pitch |-> 60, duration |-> Str("4"), startTime |-> 2]>>]>>],
   [bpm |-> 120, timeSignature |-> [numerator |-> 3, denominator |-> 4],
    tracks |-> <<[notes |-> <<[pitch |-> 60, duration |-> Str("4")]>>]>>]}

Compositions ==
  NoteCompositions \cup TempoCompositions \cup TrackCompositions
    \cup ShapeCompositions

SampleA == OneTrack(<<[pitch |-> 60, duration |-> Str("4"), startTime |-> 0, velocity |-> 100]>>)
SampleB ==
  [bpm |-> 90,
   tracks |-> <<[name |-> "Lead", notes |-> <<[pitch |-> 72, duration |-> Num(<<1, 4>>), time |-> 2]>>],
               [notes |-> <<[pitch |-> 48, duration |-> Str("2"), beat |-> 1]>>]>>]

\* what JSON.parse / fs.readFileSync are given: JSON text of a value, text
\* that is no JSON, or (files) a path that cannot be read
JsonText(value) == [ok |-> TRUE, value |-> value]
BadText == [ok |-> FALSE, why |-> "SyntaxError"]
NoFile == [ok |-> FALSE, why |-> "ENOENT"]

AbsPath == [absolute |-> TRUE, dir |-> "/out", base |-> "song.mid"]
RelPath == [absolute |-> FALSE, dir |-> "sub", base |-> "song.mid"]

Args(source, path) == [title |-> "Test", output_path |-> path] @@ source

Call(args) == [name |-> "create_midi", arguments |-> args]

\* the ways a caller names the composition
Sources(c, d) ==
  {"composition" :> [type |-> "object", value |-> c],
   "composition" :> [type |-> "string", text |-> JsonText(c)],
   "composition_file" :> JsonText(c),
   ("composition" :> [type |-> "object", value |-> c]) @@ ("composition_file" :> JsonText(d)),
   ("composition" :> [type |-> "string", text |-> BadText]) @@ ("composition_file" :> JsonText(d)),
   ("composition" :> [type |-> "object", value |-> c]) @@ ("composition_file" :> NoFile)}

FailingSources ==
  {<<>>,
   "composition" :> [type |-> "string", text |-> BadText],
   "composition_file" :> BadText,
   "composition_file" :> NoFile}

\* requests.params of tools/call: arguments is optional in the protocol
RichRequests ==
  {Call(Args("composition" :> [type |-> "object", value |-> c], AbsPath)) :
     c \in Compositions}
  \cup {Call(Args(src, p)) :
          src \in Sources(SampleA, SampleB) \cup Sources(SampleB, SampleA)
                    \cup Sources([tempo |-> 90], SampleA)
                    \cup Sources(SampleA, [bpm |-> 120])
                    \cup FailingSources,
          p \in {AbsPath, RelPath}}
  \cup {[name |-> "create_midi"], [name |-> "play_midi", arguments |-> Args(<<>>, AbsPath)]}

UnknownToolRequest == [name |-> "play_midi"]

SmallRequests ==
  {Call(Args("composition" :> [type |-> "object", value |-> SampleA], RelPath)),
   Call(Args("composition_file" :> JsonText(SampleB), AbsPath)),
   Call(Args(<<>>, RelPath)),
   UnknownToolRequest}

\* ------------------------------------------------------------------- state
VARIABLES
  request,          \* request[r]: params of the r-th tools/call request
  pc,               \* pc[r]: where the handler invocation of request r stands
  running,          \* the invocation that holds the JavaScript thread, 0 if none
  composition,      \* composition[r]: the handler's local `composition`
  processedTracks,  \* processedTracks[r]: the counter of processMidiComposition
  pending,          \* pending[r]: promises the invocation is awaiting
  tracks,           \* tracks[r]: the MidiWriter tracks built by createMidiFile
  result,           \* result[r]: how createMidiFile settled
  response,         \* response[r]: what the handler returned
  effects,          \* effects[r]: notifications and file-system calls, in order
  fs                \* the file system: existing directories, written files

vars ==
  <<request, pc, running, composition, processedTracks, pending, tracks,
    result, response, effects, fs>>

NoResponse == [isError |-> FALSE, error |-> "pending", path |-> {}]
ErrorResponse(code) == [isError |-> TRUE, error |-> code, path |-> {}]
SuccessResponse(path) == [isError |-> FALSE, error |-> "none", path |-> {path}]

Notification(progress, message) ==
  [kind |-> "progress", progress |-> progress, message |-> message]
FsCall(op, path) == [kind |-> op, path |-> path]

Init ==
  /\ \/ /\ request \in [Requests -> RichRequests \cup {UnknownToolRequest}]
        /\ \A r \in Requests : r > 1 => request[r] = UnknownToolRequest
     \/ request \in [Requests -> SmallRequests]
  /\ pc = [r \in Requests |-> "new"]
  /\ running = 0
  /\ composition = [r \in Requests |-> <<>>]
  /\ processedTracks = [r \in Requests |-> 0]
  /\ pending = [r \in Requests |-> 0]
  /\ tracks = [r \in Requests |-> <<>>]
  /\ result = [r \in Requests |-> [settled |-> FALSE]]
  /\ response = [r \in Requests |-> NoResponse]
  /\ effects = [r \in Requests |-> <<>>]
  /\ \E dirs \in {{}, {MidiDir}} : fs = [dirs |-> dirs, files |-> {}]

\* the handler returns the error-flagged response of its catch clause
Fail(r, code) ==
  /\ response' = [response EXCEPT ![r] = ErrorResponse(code)]
  /\ pc' = [pc EXCEPT ![r] = "done"]
  /\ running' = 0

\* faulty variant of Suspended: the file write sits behind one more await
SuspendedBeforeWrite(loc) ==
  loc \in {"new", "awaitTrack", "awaitPMC", "write", "awaitCMF"}

\* the places where an invocation waits for a promise, and the place it
\* waits to be dispatched
Suspended(loc) == loc \in {"new", "awaitTrack", "awaitPMC", "awaitCMF"}

\* invocation r may take its next step: it holds the thread, or the thread is
\* free and r waits at a place it can be resumed from
CanRun(r) == running = r \/ (running = 0 /\ Suspended(pc[r]))

Goto(r, loc) ==
  /\ pc' = [pc EXCEPT ![r] = loc]
  /\ running' = IF Suspended(loc) THEN 0 ELSE r

\* the handler is entered: tool name check and the 0% notification
HandlerEntry(r) ==
  /\ pc[r] = "new" /\ CanRun(r)
  /\ IF request[r].name # "create_midi"
       THEN /\ Fail(r, "MethodNotFound")
            /\ UNCHANGED effects
       ELSE /\ effects' = [effects EXCEPT ![r] = Append(@, Notification(0, "start"))]
            /\ Goto(r, "checkArgs")
            /\ UNCHANGED response
  /\ UNCHANGED <<request, composition, processedTracks, pending, tracks, result, fs>>

\* if (!args.composition && !args.composition_file) throw InvalidParams;
\* reading a property of an undefined args throws a TypeError
CheckArgs(r) ==
  /\ pc[r] = "checkArgs" /\ CanRun(r)
  /\ IF ~Has(request[r], "arguments") THEN Fail(r, "TypeError")
     ELSE IF ~Has(request[r].arguments, "composition")
               /\ ~Has(request[r].arguments, "composition_file")
       THEN Fail(r, "InvalidParams")
     ELSE Goto(r, "load") /\ UNCHANGED response
  /\ UNCHANGED <<request, composition, processedTracks, pending, tracks, result,
                 effects, fs>>

\* the composition the handler loads: {} when reading or parsing throws
Parsed(args) ==
  IF Has(args, "composition_file")
    THEN IF args.composition_file.ok THEN {args.composition_file.value} ELSE {}
  ELSE IF args.composition.type = "string"
    THEN IF args.composition.text.ok THEN {args.composition.text.value} ELSE {}
  ELSE {args.composition.value}

Load(r) ==
  /\ pc[r] = "load" /\ CanRun(r)
  /\ LET parsed == Parsed(request[r].arguments)
     IN  IF parsed = {}
           THEN Fail(r, "InvalidParams") /\ UNCHANGED composition
           ELSE /\ composition' = [composition EXCEPT ![r] = CHOOSE c \in parsed : TRUE]
                /\ Goto(r, "normalize")
                /\ UNCHANGED response
  /\ UNCHANGED <<request, processedTracks, pending, tracks, result, effects, fs>>

\* the duration and time passes; a TypeError of forEach becomes InvalidParams
Normalize(r) ==
  /\ pc[r] = "normalize" /\ CanRun(r)
  /\ IF ForEachThrows(composition[r])
       THEN Fail(r, "InvalidParams") /\ UNCHANGED composition
       ELSE /\ composition' = [composition EXCEPT ![r] = NormalizeComposition(@)]
            /\ Goto(r, "pmc")
            /\ UNCHANGED response
  /\ UNCHANGED <<request, processedTracks, pending, tracks, result, effects, fs>>

\* the promises awaited for one track of processMidiComposition
TrackPromises(track) ==
  IF Len(track.notes) > batchSize
    THEN Len(chunkArray(track.notes, batchSize))
    ELSE 1

\* processMidiComposition: the loop head, up to the await of the next track
\* or, past the last track, to createMidiFile's await of the returned promise
ProcessTrack(r) ==
  /\ pc[r] = "pmc" /\ CanRun(r)
  /\ IF processedTracks[r] < Len(composition[r].tracks)
       THEN /\ pending' = [pending EXCEPT ![r] =
                             TrackPromises(composition[r].tracks[processedTracks[r] + 1])]
            /\ Goto(r, "awaitTrack")
       ELSE /\ pending' = [pending EXCEPT ![r] = 1]
            /\ Goto(r, "awaitPMC")
  /\ UNCHANGED <<request, composition, processedTracks, tracks, result, response,
                 effects, fs>>

\* processMidiComposition resumes: processedTracks++ and the notification
TrackDone(r) ==
  /\ pc[r] = "awaitTrack" /\ CanRun(r)
  /\ processedTracks' = [processedTracks EXCEPT ![r] = @ + 1]
  /\ pending' = [pending EXCEPT ![r] = 0]
  /\ effects' = [effects EXCEPT ![r] =
                   Append(@, Notification(
                     TrackProgress(processedTracks[r] + 1, Len(composition[r].tracks)),
                     "track"))]
  /\ Goto(r, "pmc")
  /\ UNCHANGED <<request, composition, tracks, result, response, fs>>

\* createMidiFile resumes and builds the tracks handed to the writer
Assemble(r) ==
  /\ pc[r] = "awaitPMC" /\ CanRun(r)
  /\ tracks' = [tracks EXCEPT ![r] = BuildTracks(composition[r])]
  /\ pending' = [pending EXCEPT ![r] = 0]
  /\ Goto(r, "write")
  /\ UNCHANGED <<request, composition, processedTracks, result, response, effects, fs>>

\* createMidiFile resolves the path, makes the directory and writes the file;
\* mkdirSync and writeFileSync may throw, which rejects with InternalError
Write(r) ==
  /\ pc[r] = "write" /\ CanRun(r)
  /\ LET outputPath == request[r].arguments.output_path
         outputFilePath == ResolveOutputPath(outputPath)
         mkdir == ~outputPath.absolute /\ MidiDir \notin fs.dirs
         mkdirCall == IF mkdir THEN <<FsCall("mkdir", MidiDir)>> ELSE <<>>
     IN  \E outcome \in {"ok", "writeFails"} \cup (IF mkdir THEN {"mkdirFails"} ELSE {}) :
           CASE outcome = "mkdirFails" ->
                  /\ result' = [result EXCEPT ![r] = [settled |-> TRUE, ok |-> FALSE]]
                  /\ UNCHANGED <<fs, effects>>
             [] outcome = "writeFails" ->
                  /\ result' = [result EXCEPT ![r] = [settled |-> TRUE, ok |-> FALSE]]
                  /\ fs' = [fs EXCEPT !.dirs = @ \cup (IF mkdir THEN {MidiDir} ELSE {})]
                  /\ effects' = [effects EXCEPT ![r] = @ \o mkdirCall]
             [] outcome = "ok" ->
                  /\ result' = [result EXCEPT ![r] =
                                  [settled |-> TRUE, ok |-> TRUE, path |-> outputFilePath]]
                  /\ fs' = [dirs |-> fs.dirs \cup (IF mkdir THEN {MidiDir} ELSE {}),
                            files |-> fs.files \cup {outputFilePath}]
                  /\ effects' = [effects EXCEPT ![r] =
                                   (@ \o mkdirCall) \o <<FsCall("write", outputFilePath)>>]
  /\ Goto(r, "awaitCMF")
  /\ UNCHANGED <<request, composition, processedTracks, pending, tracks, response>>

\* the handler resumes after createMidiFile: the 100% notification and the
\* success response, or the catch clause
Finish(r) ==
  /\ pc[r] = "awaitCMF" /\ CanRun(r)
  /\ IF result[r].ok
       THEN /\ effects' = [effects EXCEPT ![r] = Append(@, Notification(100, "done"))]
            /\ response' = [response EXCEPT ![r] = SuccessResponse(result[r].path)]
            /\ pc' = [pc EXCEPT ![r] = "done"]
            /\ running' = 0
       ELSE Fail(r, "InternalError") /\ UNCHANGED effects
  /\ UNCHANGED <<request, composition, processedTracks, pending, tracks, result, fs>>

Next ==
  \E r \in Requests :
    \/ HandlerEntry(r)
    \/ CheckArgs(r)
    \/ Load(r)
    \/ Normalize(r)
    \/ ProcessTrack(r)
    \/ TrackDone(r)
    \/ Assemble(r)
    \/ Write(r)
    \/ Finish(r)

Spec == Init /\ [][Next]_vars

TypeOK ==
  /\ running \in Requests \cup {0}
  /\ \A r \in Requests :
       pc[r] \in {"new", "checkArgs", "load", "normalize", "pmc", "awaitTrack",
                  "awaitPMC", "write", "awaitCMF", "done"}

\* ------------------------------------------------------ claim vocabulary
\* the composition request r declares (its arguments parsed)
Declared(r) == CHOOSE c \in Parsed(request[r].arguments) : TRUE

\* the two normalisation passes of request r have run
Normalized(r) ==
  \/ pc[r] \in {"pmc", "awaitTrack", "awaitPMC", "write", "awaitCMF"}
  \/ pc[r] = "done" /\ result[r].settled

\* createMidiFile has built the tracks of request r for the writer
Assembled(r) ==
  \/ pc[r] \in {"write", "awaitCMF"}
  \/ pc[r] = "done" /\ result[r].settled

Succeeded(r) == pc[r] = "done" /\ ~response[r].isError

\* every note of request r, as (track, index) with its declared form and
\* the event built for it
NotePositions(r) ==
  {<<t, i>> \in (1 .. Len(Declared(r).tracks)) \X (1 .. (2 * batchSize + 1)) :
     i <= Len(Declared(r).tracks[t].notes)}

DeclaredNote(r, pos) == Declared(r).tracks[pos[1]].notes[pos[2]]
EventOf(r, pos) == tracks[r][pos[1]].events[pos[2]]

FsCalls(r) == {i \in 1 .. Len(effects[r]) : effects[r][i].kind # "progress"}
Writes(r) == {i \in 1 .. Len(effects[r]) : effects[r][i].kind = "write"}
Progress(r) == {i \in 1 .. Len(effects[r]) : effects[r][i].kind = "progress"}

\* ------------------------------------------------------------------ claims

\* C1: the note events handed to the writer follow the declared track order
\* and, within each track, the declared note order, one event per declared
\* note, for tracks below, at and above the batch size of 50.
C1_DeclarationOrderKept ==
  \A r \in Requests :
    Assembled(r) =>
      LET declared == Declared(r).tracks
      IN  /\ Len(tracks[r]) = Len(declared)
          /\ \A t \in 1 .. Len(declared) :
               /\ Len(tracks[r][t].events) = Len(declared[t].notes)
               /\ \A i \in 1 .. Len(declared[t].notes) :
                    tracks[r][t].events[i].pitch = declared[t].notes[i].pitch

\* a finished build of two tracks, one above the batch size and one exactly
\* at it
C1_Witness ==
  \E r \in Requests :
    /\ Succeeded(r)
    /\ Len(tracks[r]) >= 2
    /\ \E t \in 1 .. Len(tracks[r]) : Len(tracks[r][t].events) > batchSize
    /\ \E t \in 1 .. Len(tracks[r]) : Len(tracks[r][t].events) = batchSize

\* the table of the duration normaliser as the specification states it
SpecifiedToken(d) ==
  LET table == (<<1, 16>> :> "64") @@ (<<1, 8>> :> "32") @@ (<<1, 4>> :> "16")
                 @@ (<<1, 2>> :> "8") @@ (<<1, 1>> :> "4") @@ (<<2, 1>> :> "2")
  IN  IF d \in DOMAIN table THEN table[d] ELSE "4"

\* C4: a numeric duration is normalised to the token of the table (0.0625 ->
\* "64", 0.125 -> "32", 0.25 -> "16", 0.5 -> "8", 1 -> "4", 2 -> "2", any
\* other number -> "4"), so it carries a token of the vocabulary afterwards,
\* in the composition and in the event built from it.
C4_NumericDurationNormalized ==
  \A r \in Requests :
    Normalized(r) =>
      \A pos \in NotePositions(r) :
        DeclaredNote(r, pos).duration.type = "number" =>
          LET token == Str(SpecifiedToken(DeclaredNote(r, pos).duration.val))
          IN  /\ composition[r].tracks[pos[1]].notes[pos[2]].duration = token
              /\ token.val \in Tokens
              /\ Assembled(r) => EventOf(r, pos).duration = token

\* a build whose note declared the duration 0.0625 has been assembled with
\* the token "64"
C4_Witness ==
  \E r \in Requests :
    /\ Assembled(r)
    /\ \E pos \in NotePositions(r) :
         /\ DeclaredNote(r, pos).duration = Num(<<1, 16>>)
         /\ EventOf(r, pos).duration = Str("64")

\* Math.round(offset * 0.5)
OffsetWait(offset) == Fin(Round(offset, 2))

\* the wait of a note under the precedence beat > time > startTime
WaitTimeFirst(note, comp) ==
  IF Has(note, "beat") THEN convertBeatToWait(note.beat, BpmOf(comp))
  ELSE IF Has(note, "time") THEN OffsetWait(note.time)
  ELSE IF Has(note, "startTime") THEN OffsetWait(note.startTime)
  ELSE Fin(0)

\* the wait of a note under the precedence beat > startTime > time
WaitStartTimeFirst(note, comp) ==
  IF Has(note, "beat") THEN convertBeatToWait(note.beat, BpmOf(comp))
  ELSE IF Has(note, "startTime") THEN OffsetWait(note.startTime)
  ELSE IF Has(note, "time") THEN OffsetWait(note.time)
  ELSE Fin(0)

\* C2 as stated: the wait of every note event is resolved with the precedence
\* beat > time > startTime, time deciding even when startTime is present.
C2_TimeBeforeStartTime ==
  \A r \in Requests :
    Assembled(r) =>
      \A pos \in NotePositions(r) :
        EventOf(r, pos).wait = WaitTimeFirst(DeclaredNote(r, pos), Declared(r))

\* C2 amended: the wait of every note event is resolved with the precedence
\* beat > startTime > time: beat alone decides when present; otherwise a
\* present startTime decides even when time is present too; time is used only
\* when startTime is absent; with none of the three the wait is 0.
C2_StartTimeBeforeTime ==
  \A r \in Requests :
    Assembled(r) =>
      \A pos \in NotePositions(r) :
        EventOf(r, pos).wait = WaitStartTimeFirst(DeclaredNote(r, pos), Declared(r))

\* an assembled note that declared no beat and both offsets, which resolve
\* to different waits
C2_Witness ==
  \E r \in Requests :
    /\ Assembled(r)
    /\ \E pos \in NotePositions(r) :
         LET note == DeclaredNote(r, pos)
         IN  /\ ~Has(note, "beat") /\ Has(note, "time") /\ Has(note, "startTime")
             /\ OffsetWait(note.time) # OffsetWait(note.startTime)
             /\ EventOf(r, pos).wait = OffsetWait(note.startTime)

\* C3 as stated: the wait of every note event is a non-negative integer,
\* whichever timing field the note carried and whatever its value.
C3_WaitNonNegative ==
  \A r \in Requests :
    Assembled(r) =>
      \A pos \in NotePositions(r) :
        EventOf(r, pos).wait.fin /\ EventOf(r, pos).wait.v >= 0

\* request r names the tool and supplies neither composition source
SuppliesNeither(r) ==
  /\ request[r].name = "create_midi"
  /\ \/ ~Has(request[r], "arguments")
     \/ /\ ~Has(request[r].arguments, "composition")
        /\ ~Has(request[r].arguments, "composition_file")

SuppliesBoth(r) ==
  /\ request[r].name = "create_midi"
  /\ Has(request[r], "arguments")
  /\ Has(request[r].arguments, "composition")
  /\ Has(request[r].arguments, "composition_file")

\* request r supplies a composition that parses and lacks bpm or tracks
LacksRequiredField(r) ==
  /\ request[r].name = "create_midi"
  /\ Has(request[r], "arguments")
  /\ Has(request[r].arguments, "composition") \/ Has(request[r].arguments, "composition_file")
  /\ Parsed(request[r].arguments) # {}
  /\ ~Has(Declared(r), "bpm") \/ ~Has(Declared(r), "tracks")

RejectedAsInvalidParams(r) ==
  /\ response[r].isError
  /\ response[r].error = "InvalidParams"
  /\ FsCalls(r) = {}

\* C5 as stated: a request that supplies neither composition nor
\* composition_file ends in an error response carrying InvalidParams, with no
\* file written and no directory created.
C5_NeitherIsInvalidParams ==
  \A r \in Requests :
    pc[r] = "done" /\ SuppliesNeither(r) => RejectedAsInvalidParams(r)

\* C6 as stated: a request that supplies both composition and
\* composition_file is rejected with InvalidParams and writes no file.
C6_BothIsInvalidParams ==
  \A r \in Requests :
    pc[r] = "done" /\ SuppliesBoth(r) => RejectedAsInvalidParams(r)

\* C7 as stated: a request whose parsed composition lacks bpm or tracks ends
\* in an InvalidParams error response, createMidiFile is never reached and no
\* file is written.
C7_MissingFieldIsInvalidParams ==
  \A r \in Requests :
    LacksRequiredField(r) =>
      /\ ~Assembled(r)
      /\ pc[r] = "done" => RejectedAsInvalidParams(r)

\* C10 as stated: the tempo that converts a note's beat into wait ticks is
\* the positive tempo of the track's tempo-set event.
C10_BeatUsesEmittedTempo ==
  \A r \in Requests :
    Assembled(r) =>
      \A pos \in NotePositions(r) :
        Has(DeclaredNote(r, pos), "beat") =>
          /\ tracks[r][pos[1]].tempo > 0
          /\ EventOf(r, pos).wait =
               convertBeatToWait(DeclaredNote(r, pos).beat, {tracks[r][pos[1]].tempo})

\* the handler invocation of request r has started and has not returned
InFlight(r) == pc[r] \notin {"new", "done"}

\* invocation r is inside a synchronous stretch of code: past the place it
\* was last resumed at and before its next await or its return
InSegment(r) == pc[r] \in {"checkArgs", "load", "normalize", "pmc", "write"}

\* C8 as stated: builds never overlap; once the handler of one request has
\* started, no other request's handler is under way until it has returned.
C8_NoOverlap ==
  \A r, q \in Requests : r # q => ~(InFlight(r) /\ InFlight(q))

\* C8 amended: handler invocations interleave at their awaits only. While an
\* invocation is inside a synchronous stretch (argument check, load and
\* normalisation up to the first await; the loop of processMidiComposition
\* between two awaits; event assembly and the file write), no step of another
\* request's handler runs.
C8_OverlapOnlyAtAwaits ==
  [][\A r, q \in Requests : (r # q /\ InSegment(r)) => pc'[q] = pc[q]]_vars

\* one build is about to write its file while another one is suspended at an
\* await
C8_Witness ==
  \E r, q \in Requests :
    /\ r # q
    /\ pc[r] = "write"
    /\ pc[q] \in {"awaitTrack", "awaitPMC", "awaitCMF"}

\* C9 as stated: a successful request of one or more tracks reports 0%
\* exactly once, before any track is processed, and 100% exactly once, only
\* after the file has been written; every value before the write is below 100.
C9_HundredOnlyAfterWrite ==
  \A r \in Requests :
    (Succeeded(r) /\ Len(Declared(r).tracks) >= 1) =>
      LET e == effects[r]
          zeros == {i \in Progress(r) : e[i].progress = 0}
          hundreds == {i \in Progress(r) : e[i].progress = 100}
      IN  /\ Cardinality(zeros) = 1
          /\ \A i \in zeros : \A j \in Progress(r) : e[j].message = "track" => i < j
          /\ Cardinality(hundreds) = 1
          /\ \A i \in hundreds : \E w \in Writes(r) : w < i
          /\ \A i \in Progress(r) : (\A w \in Writes(r) : i < w) => e[i].progress < 100

\* C9 amended: a successful request reports the start notification (0%)
\* first and once, before any track is processed; then one notification per
\* track, each before the file is written and none above 100, the one after
\* the last track being 100; and last, once and only after the file has been
\* written, the completion notification (100%).
C9_ProgressOrder ==
  \A r \in Requests :
    Succeeded(r) =>
      LET e == effects[r]
          n == Len(Declared(r).tracks)
          at(message) == {i \in Progress(r) : e[i].message = message}
      IN  /\ at("start") = {1}
          /\ e[1].progress = 0
          /\ at("track") = 2 .. (n + 1)
          /\ \A i \in at("track") :
               /\ \A w \in Writes(r) : i < w
               /\ e[i].progress <= 100
               /\ i = n + 1 => e[i].progress = 100
          /\ at("done") = {Len(e)}
          /\ e[Len(e)].progress = 100
          /\ \E w \in Writes(r) : w < Len(e)

\* a successful build of two tracks or more: an intermediate value, the 100
\* of the last track, the write and the completion notification
C9_Witness ==
  \E r \in Requests :
    /\ Succeeded(r)
    /\ Len(Declared(r).tracks) >= 2
    /\ \E i \in Progress(r) : effects[r][i].message = "track" /\ effects[r][i].progress < 100

====
